---- MODULE Spec2Model ----
(***************************************************************************)
(* Model of mnist_pytorch_lightning.ipynb: the data-preparation cell, the  *)
(* MNISTModel LightningModule, the Trainer construction and the calls of   *)
(* trainer.fit and trainer.test, together with the behaviour of the        *)
(* library objects the notebook configures (random_split, DataLoader,      *)
(* Trainer, ModelCheckpoint, torchmetrics Accuracy, self.log).             *)
(*                                                                         *)
(* Spec (FairSpec with fairness) is the notebook run cell by cell, with    *)
(* batches identified by their index and size.  DataSpec and LoaderSpec    *)
(* are the data path alone, with every sample identified: random_split     *)
(* and passes over the DataLoaders served by worker processes; DataSpec    *)
(* draws every split, LoaderSpec has passes of more batches than the       *)
(* workers prefetch.                                                       *)
(***************************************************************************)
EXTENDS Integers, Sequences, FiniteSets

(***************************************************************************)
(* Sizes.  The notebook's sizes (55_000 / 5_000 / 10_000 samples, batches  *)
(* of 64, 10 epochs, 4 workers) are scaled down; every formula below is    *)
(* stated in terms of these names.                                         *)
(***************************************************************************)
TrainLen == 5
ValLen == 5
TestLen == 3
BatchSize == 2
MaxEpochs == 2

\* The sizes of the data path (DataSpec), where every sample is told apart.
SplitTrainLen == 3
SplitValLen == 1
SplitTestLen == 2
NumWorkers == 2

\* The training partition and the batch size of LoaderSpec.
PassTrainLen == 5
PassBatchSize == 1

\* Trainer and DataLoader defaults the notebook leaves untouched.
NumSanityValSteps == 2
CheckValEveryNEpoch == 1
PrefetchFactor == 2

\* The numbers of the notebook itself (used for arithmetic only).
train_len == 55000
batch_size == 64
max_epochs == 10
ckpt_step == 8600

VARIABLES
    env,            \* what the machine offers: dataset on disk, network, gpu
    pc,             \* the cell (or call) the notebook is at
    error,          \* the exception that ended the run, or "none"
    stage,          \* the loop the trainer is in
    current_epoch,  \* trainer.current_epoch
    batch_idx,      \* index of the next batch of the running loop
    global_step,    \* trainer.global_step: optimizer steps taken
    params,         \* version of the model parameters, -1 before MNISTModel()
    opt_state,      \* Adam's step counter, -1 before configure_optimizers
    metrics,        \* states of self.val_acc and self.test_acc
    logged,         \* the trainer's result collection for the running loop
    callback_metrics, \* trainer.callback_metrics: the values last reported
    val_hist,       \* val_loss reported for each finished epoch
    ckpt,           \* the checkpoint file on disk (<<>> when none)
    returned,       \* what trainer.test returned (<<>> before)
    truth,          \* samples seen / classified correctly in the running pass
    counts,         \* how often each batch was handed to each step function
    passes,         \* passes finished per loop
    history,        \* the cells run so far, in order
    batch,          \* the batch last handed to a step function (<<>> before)
    calls,          \* calls of each step function so far
    cfg,            \* data path: the lengths and the batch size of the data cell
    subsets,        \* data path: the Subsets random_split returned (<<>> before)
    iter,           \* data path: the running DataLoader iterator (<<>> when none)
    delivered       \* data path: what the last pass handed to its step function

runVars == <<env, pc, error, stage, current_epoch, batch_idx, global_step, params,
             opt_state, metrics, logged, callback_metrics, val_hist, ckpt,
             returned, truth, counts, passes, history, batch, calls>>

dataVars == <<cfg, subsets, iter, delivered>>

vars == <<runVars, dataVars>>

(***************************************************************************)
(* Arithmetic on fractions <<numerator, denominator>>.                      *)
(***************************************************************************)
Rat(n, d) == <<n, d>>

RatAdd(a, b) == <<a[1] * b[2] + b[1] * a[2], a[2] * b[2]>>

RatMulInt(a, k) == <<a[1] * k, a[2]>>

RatDivInt(a, k) == <<a[1], a[2] * k>>

RECURSIVE Gcd(_, _)
Gcd(a, b) == IF b = 0 THEN a ELSE Gcd(b, a % b)

RatNorm(a) == LET g == Gcd(a[1], a[2]) IN IF g = 0 THEN a ELSE <<a[1] \div g, a[2] \div g>>

RatEq(a, b) == a[1] * b[2] = b[1] * a[2]

RatLess(a, b) == a[1] * b[2] < b[1] * a[2]

Min(a, b) == IF a < b THEN a ELSE b

CeilDiv(a, b) == (a + b - 1) \div b

(***************************************************************************)
(* DataLoader(dataset, batch_size=64): batches of the sampler's order,     *)
(* drop_last left at False.                                                *)
(***************************************************************************)
DatasetLen(loader) ==
    CASE loader = "train" -> TrainLen
      [] loader = "val"   -> ValLen
      [] loader = "test"  -> TestLen

NumBatchesFloor(n) == n \div BatchSize

NumBatches(n) == (n + BatchSize - 1) \div BatchSize

BatchLenUncapped(n, b) == n - b * BatchSize

BatchLen(n, b) == Min(BatchSize, n - b * BatchSize)

\* The batches a loop takes from its loader: the sanity check stops after
\* num_sanity_val_steps batches, every other loop runs the loader to its end.
\* Which loader feeds which step function: trainer.fit(train_dataloaders=
\* training_data, val_dataloaders=validation_data), trainer.test(dataloaders=
\* test_data).
StepLoader(step) ==
    CASE step = "training_step"   -> "train"
      [] step = "validation_step" -> "val"
      [] step = "test_step"       -> "test"

LoopLimitShortTest(st) ==
    CASE st = "sanity" -> Min(NumSanityValSteps, NumBatches(ValLen))
      [] st = "val"    -> NumBatches(ValLen)
      [] st = "train"  -> NumBatches(TrainLen)
      [] st = "test"   -> NumBatches(TestLen) - 1

LoopLimit(st) ==
    CASE st = "sanity" -> Min(NumSanityValSteps, NumBatches(ValLen))
      [] st = "val"    -> NumBatches(ValLen)
      [] st = "train"  -> NumBatches(TrainLen)
      [] st = "test"   -> NumBatches(TestLen)

(***************************************************************************)
(* self.log(name, tensor) in an evaluation step: on_epoch, reduce_fx=mean, *)
(* weighted by the batch size.                                             *)
(***************************************************************************)
MeanEmpty == [value |-> Rat(0, 1), cumulated_batch_size |-> 0]

MeanUpdateUnweighted(m, v, n) ==
    [value |-> RatNorm(RatAdd(m.value, v)),
     cumulated_batch_size |-> m.cumulated_batch_size + 1]

MeanUpdate(m, v, n) ==
    [value |-> RatNorm(RatAdd(m.value, RatMulInt(v, n))),
     cumulated_batch_size |-> m.cumulated_batch_size + n]

MeanCompute(m) == RatNorm(RatDivInt(m.value, m.cumulated_batch_size))

(***************************************************************************)
(* torchmetrics Accuracy(): update adds to correct/total, compute divides, *)
(* forward updates and returns the value of the batch alone.               *)
(***************************************************************************)
AccuracyEmpty == [correct |-> 0, total |-> 0]

AccuracyUpdate(m, c, n) == [correct |-> m.correct + c, total |-> m.total + n]

AccuracyCompute(m) == RatNorm(Rat(m.correct, m.total))

AccuracyForward(c, n) == RatNorm(Rat(c, n))

\* What the trainer does to a logged Metric object when a loop's epoch ends.
MetricAfterEpoch(m) == AccuracyEmpty

\* The loss of one batch, in abstract units.
LossLevels == {1, 2}

ZeroCounts(n) == [b \in 0 .. (n - 1) |-> 0]

Bump(f, b) == [f EXCEPT ![b] = @ + 1]

(***************************************************************************)
(* The notebook, cell by cell.                                             *)
(***************************************************************************)
NoTruth == [samples |-> 0, correct |-> 0]

RunInit ==
    /\ env \in [dataset : BOOLEAN, network : BOOLEAN, gpu : BOOLEAN]
    /\ pc = "data"
    /\ error = "none"
    /\ stage = "idle"
    /\ current_epoch = 0
    /\ batch_idx = 0
    /\ global_step = 0
    /\ params = -1
    /\ opt_state = -1
    /\ metrics = [val_acc |-> AccuracyEmpty, test_acc |-> AccuracyEmpty]
    /\ logged = [val_loss |-> MeanEmpty, test_loss |-> MeanEmpty, test_acc |-> MeanEmpty]
    /\ callback_metrics = <<>>
    /\ val_hist = <<>>
    /\ ckpt = <<>>
    /\ returned = <<>>
    /\ truth = [val |-> NoTruth, test |-> NoTruth]
    /\ counts = [train |-> ZeroCounts(NumBatches(TrainLen)),
                 val   |-> ZeroCounts(NumBatches(ValLen)),
                 test  |-> ZeroCounts(NumBatches(TestLen))]
    /\ passes = [sanity |-> 0, train |-> 0, val |-> 0, test |-> 0]
    /\ history = <<>>
    /\ batch = <<>>
    /\ calls = [training_step |-> 0, validation_step |-> 0, test_step |-> 0]

NothingDelivered == [step |-> "none", samples |-> <<>>, complete |-> FALSE,
                     reordered |-> FALSE]

DataCfg(train, val, test, size) ==
    [train |-> train, val |-> val, test |-> test, batch_size |-> size]

DataIdle ==
    /\ cfg = DataCfg(SplitTrainLen, SplitValLen, SplitTestLen, BatchSize)
    /\ subsets = <<>>
    /\ iter = <<>>
    /\ delivered = NothingDelivered

\* MNIST(root="data", download=True): the files on disk are used when they are
\* there and downloaded otherwise; without either the constructor raises.
MnistOutcome(e) == IF e.dataset \/ e.network THEN "ok" ELSE "raise"

\* Trainer(accelerator='gpu'): raises when no GPU is there.
TrainerOutcomeFallback(e) == "ok"

TrainerOutcome(e) == IF e.gpu THEN "ok" ELSE "raise"

\* The cells of the notebook in the order they are run.
Script == <<"data", "init", "logging", "fit", "test">>

CellAfter(c) ==
    LET i == CHOOSE k \in 1 .. Len(Script) : Script[k] = c
    IN  IF i = Len(Script) THEN "done" ELSE Script[i + 1]

Raise(e) ==
    /\ pc' = "failed"
    /\ error' = e

\* Cell d789a200: the two MNIST datasets, random_split, the three DataLoaders.
DataCell ==
    /\ pc = "data"
    /\ IF MnistOutcome(env) = "ok"
       THEN /\ pc' = CellAfter("data")
            /\ error' = error
       ELSE Raise("dataset")
    /\ history' = Append(history, "data")
    /\ UNCHANGED <<env, stage, current_epoch, batch_idx, global_step, params,
                   opt_state, metrics, logged, callback_metrics, val_hist, ckpt,
                   returned, truth, counts, passes, batch, calls, dataVars>>

\* Cell c3bb5430: mnist_model = MNISTModel(); trainer = Trainer(...).
InitCell ==
    /\ pc = "init"
    /\ params' = 0
    /\ metrics' = [val_acc |-> AccuracyEmpty, test_acc |-> AccuracyEmpty]
    /\ IF TrainerOutcome(env) = "ok"
       THEN /\ pc' = CellAfter("init")
            /\ error' = error
       ELSE Raise("accelerator")
    /\ history' = Append(history, "init")
    /\ UNCHANGED <<env, stage, current_epoch, batch_idx, global_step,
                   opt_state, logged, callback_metrics, val_hist, ckpt,
                   returned, truth, counts, passes, batch, calls, dataVars>>

\* Cell 0fa43615: tensorboard is started; the run is not touched.
LoggingCell ==
    /\ pc = "logging"
    /\ pc' = CellAfter("logging")
    /\ history' = Append(history, "logging")
    /\ UNCHANGED <<env, error, stage, current_epoch, batch_idx, global_step, params,
                   opt_state, metrics, logged, callback_metrics, val_hist, ckpt,
                   returned, truth, counts, passes, batch, calls, dataVars>>

(***************************************************************************)
(* trainer.fit(model, train_dataloaders, val_dataloaders)                  *)
(***************************************************************************)
\* Automatic optimization: backward and optimizer.step() belong to the
\* training loop alone; the evaluation loops run the step under no_grad.
OptimizerStepsAnyLoop(st) == 1

OptimizerSteps(st) == IF st = "train" THEN 1 ELSE 0

\* check_val_every_n_epoch (default 1): validation after every training epoch.
ShouldValidateEverySecond(epoch) == (epoch + 1) % 2 = 0

ShouldValidate(epoch) == (epoch + 1) % CheckValEveryNEpoch = 0

\* The default ModelCheckpoint (no monitor, save_top_k=1): the checkpoint of
\* the epoch that just ended replaces the one on disk.
SaveCheckpoint(old, new) == <<new>>

\* The call: configure_optimizers, then the sanity check on the validation loader.
FitStart ==
    /\ pc = "fit"
    /\ stage = "idle"
    /\ opt_state' = 0
    /\ stage' = "sanity"
    /\ batch_idx' = 0
    /\ logged' = [logged EXCEPT !.val_loss = MeanEmpty]
    /\ truth' = [truth EXCEPT !.val = NoTruth]
    /\ counts' = [counts EXCEPT !.val = ZeroCounts(NumBatches(ValLen))]
    /\ history' = Append(history, "fit")
    /\ UNCHANGED <<env, pc, error, current_epoch, global_step, params, metrics,
                   callback_metrics, val_hist, ckpt, returned, passes, batch, calls, dataVars>>

\* MNISTModel.validation_step on the next validation batch.
ValidationStep ==
    /\ pc = "fit"
    /\ stage \in {"sanity", "val"}
    /\ batch_idx < LoopLimit(stage)
    /\ LET n == BatchLen(DatasetLen(StepLoader("validation_step")), batch_idx)
       IN  \E loss \in LossLevels, c \in 0 .. n :
             /\ metrics' = [metrics EXCEPT !.val_acc = AccuracyUpdate(@, c, n)]
             /\ logged' = [logged EXCEPT !.val_loss = MeanUpdate(@, Rat(loss, 1), n)]
             /\ truth' = [truth EXCEPT !.val = [samples |-> @.samples + n,
                                                correct |-> @.correct + c]]
    /\ batch' = <<[loader |-> StepLoader("validation_step"), idx |-> batch_idx,
                  size |-> BatchLen(DatasetLen(StepLoader("validation_step")), batch_idx)]>>
    /\ calls' = [calls EXCEPT !.validation_step = @ + 1]
    /\ counts' = [counts EXCEPT !.val = Bump(@, batch_idx)]
    /\ batch_idx' = batch_idx + 1
    /\ params' = params + OptimizerSteps(stage)
    /\ opt_state' = opt_state + OptimizerSteps(stage)
    /\ global_step' = global_step + OptimizerSteps(stage)
    /\ UNCHANGED <<env, pc, error, stage, current_epoch, callback_metrics,
                   val_hist, ckpt, returned, passes, history, dataVars>>

\* The end of an evaluation loop inside fit: the logged values are reduced
\* and reported, the logged Metric object is reset.  What the sanity check
\* reported is dropped before training starts.
ValidationEnd ==
    /\ pc = "fit"
    /\ stage \in {"sanity", "val"}
    /\ batch_idx = LoopLimit(stage)
    /\ LET val_loss == MeanCompute(logged.val_loss)
           val_acc  == AccuracyCompute(metrics.val_acc)
       IN  IF stage = "sanity"
           THEN /\ callback_metrics' = <<>>
                /\ val_hist' = val_hist
                /\ passes' = [passes EXCEPT !.sanity = @ + 1]
                /\ stage' = "train"
           ELSE /\ callback_metrics' = <<[val_loss |-> val_loss, val_acc |-> val_acc]>>
                /\ val_hist' = Append(val_hist, val_loss)
                /\ passes' = [passes EXCEPT !.val = @ + 1]
                /\ stage' = "epoch_end"
    /\ metrics' = [metrics EXCEPT !.val_acc = MetricAfterEpoch(@)]
    /\ logged' = [logged EXCEPT !.val_loss = MeanEmpty]
    /\ batch_idx' = 0
    /\ UNCHANGED <<env, pc, error, current_epoch, global_step, params, opt_state,
                   ckpt, returned, truth, counts, history, batch, calls, dataVars>>

\* MNISTModel.training_step on the next training batch, then backward and
\* the optimizer step; after the last batch of the epoch the validation loop
\* is entered.
TrainingStep ==
    /\ pc = "fit"
    /\ stage = "train"
    /\ batch_idx < LoopLimit("train")
    /\ batch' = <<[loader |-> StepLoader("training_step"), idx |-> batch_idx,
                  size |-> BatchLen(DatasetLen(StepLoader("training_step")), batch_idx)]>>
    /\ calls' = [calls EXCEPT !.training_step = @ + 1]
    /\ params' = params + OptimizerSteps(stage)
    /\ opt_state' = opt_state + OptimizerSteps(stage)
    /\ global_step' = global_step + OptimizerSteps(stage)
    /\ IF batch_idx + 1 < LoopLimit("train")
       THEN /\ batch_idx' = batch_idx + 1
            /\ stage' = stage
            /\ counts' = [counts EXCEPT !.train = Bump(@, batch_idx)]
            /\ UNCHANGED <<logged, truth>>
       ELSE /\ batch_idx' = 0
            /\ IF ShouldValidate(current_epoch)
               THEN /\ stage' = "val"
                    /\ logged' = [logged EXCEPT !.val_loss = MeanEmpty]
                    /\ truth' = [truth EXCEPT !.val = NoTruth]
                    /\ counts' = [counts EXCEPT
                                    !.train = Bump(@, batch_idx),
                                    !.val = ZeroCounts(NumBatches(ValLen))]
               ELSE /\ stage' = "epoch_end"
                    /\ counts' = [counts EXCEPT !.train = Bump(@, batch_idx)]
                    /\ UNCHANGED <<logged, truth>>
    /\ UNCHANGED <<env, pc, error, current_epoch, metrics, callback_metrics,
                   val_hist, ckpt, returned, passes, history, dataVars>>

\* on_train_epoch_end: the checkpoint callback saves, the epoch counter
\* advances, and fit returns once max_epochs epochs are done.
TrainEpochEnd ==
    /\ pc = "fit"
    /\ stage = "epoch_end"
    /\ ckpt' = SaveCheckpoint(ckpt, [epoch |-> current_epoch, step |-> global_step,
                                     params |-> params])
    /\ current_epoch' = current_epoch + 1
    /\ passes' = [passes EXCEPT !.train = @ + 1]
    /\ batch_idx' = 0
    /\ IF current_epoch + 1 >= MaxEpochs
       THEN /\ stage' = "idle"
            /\ pc' = CellAfter("fit")
            /\ counts' = counts
       ELSE /\ stage' = "train"
            /\ pc' = pc
            /\ counts' = [counts EXCEPT !.train = ZeroCounts(NumBatches(TrainLen))]
    /\ UNCHANGED <<env, error, global_step, params, opt_state, metrics, logged,
                   callback_metrics, val_hist, returned, truth, history, batch, calls, dataVars>>

(***************************************************************************)
(* trainer.test(ckpt_path='best', dataloaders=test_data)                   *)
(***************************************************************************)
\* ckpt_path='best' is the checkpoint callback's best_model_path: the file on
\* disk.  Without one the call raises; otherwise the weights are loaded.
TestStart ==
    /\ pc = "test"
    /\ stage = "idle"
    /\ IF ckpt = <<>>
       THEN /\ Raise("checkpoint")
            /\ UNCHANGED <<stage, params, logged, truth>>
       ELSE /\ params' = ckpt[1].params
            /\ stage' = "test"
            /\ logged' = [logged EXCEPT !.test_loss = MeanEmpty, !.test_acc = MeanEmpty]
            /\ truth' = [truth EXCEPT !.test = NoTruth]
            /\ UNCHANGED <<pc, error>>
    /\ batch_idx' = 0
    /\ history' = Append(history, "test")
    /\ UNCHANGED <<env, current_epoch, global_step, opt_state, metrics,
                   callback_metrics, val_hist, ckpt, returned, counts, passes,
                   batch, calls, dataVars>>

\* MNISTModel.test_step on the next test batch.
TestStep ==
    /\ pc = "test"
    /\ stage = "test"
    /\ batch_idx < LoopLimit("test")
    /\ LET n == BatchLen(DatasetLen(StepLoader("test_step")), batch_idx)
       IN  \E loss \in LossLevels, c \in 0 .. n :
             LET accuracy == AccuracyForward(c, n)
             IN  /\ metrics' = [metrics EXCEPT !.test_acc = AccuracyUpdate(@, c, n)]
                 /\ logged' = [logged EXCEPT
                                 !.test_loss = MeanUpdate(@, Rat(loss, 1), n),
                                 !.test_acc = MeanUpdate(@, accuracy, n)]
                 /\ truth' = [truth EXCEPT !.test = [samples |-> @.samples + n,
                                                     correct |-> @.correct + c]]
    /\ batch' = <<[loader |-> StepLoader("test_step"), idx |-> batch_idx,
                  size |-> BatchLen(DatasetLen(StepLoader("test_step")), batch_idx)]>>
    /\ calls' = [calls EXCEPT !.test_step = @ + 1]
    /\ counts' = [counts EXCEPT !.test = Bump(@, batch_idx)]
    /\ batch_idx' = batch_idx + 1
    /\ params' = params + OptimizerSteps(stage)
    /\ opt_state' = opt_state + OptimizerSteps(stage)
    /\ global_step' = global_step + OptimizerSteps(stage)
    /\ UNCHANGED <<env, pc, error, stage, current_epoch, callback_metrics,
                   val_hist, ckpt, returned, passes, history, dataVars>>

\* The end of the test loop: the logged values are reduced and returned as
\* a list holding one dict.
TestEnd ==
    /\ pc = "test"
    /\ stage = "test"
    /\ batch_idx = LoopLimit("test")
    /\ returned' = <<[test_loss |-> MeanCompute(logged.test_loss),
                      test_acc  |-> MeanCompute(logged.test_acc)]>>
    /\ logged' = [logged EXCEPT !.test_loss = MeanEmpty, !.test_acc = MeanEmpty]
    /\ passes' = [passes EXCEPT !.test = @ + 1]
    /\ stage' = "idle"
    /\ pc' = CellAfter("test")
    /\ batch_idx' = 0
    /\ UNCHANGED <<env, error, current_epoch, global_step, params, opt_state,
                   metrics, callback_metrics, val_hist, ckpt, truth, counts,
                   history, batch, calls, dataVars>>

Init == RunInit /\ DataIdle

Next ==
    \/ DataCell
    \/ InitCell
    \/ LoggingCell
    \/ FitStart
    \/ ValidationStep
    \/ ValidationEnd
    \/ TrainingStep
    \/ TrainEpochEnd
    \/ TestStart
    \/ TestStep
    \/ TestEnd

Spec == Init /\ [][Next]_vars

\* One process runs the cells: a step that can be taken is taken.
FairSpec == Spec /\ WF_vars(Next)

(***************************************************************************)
(* Properties of the run (specifications Spec and FairSpec).               *)
(***************************************************************************)
IsPrefix(a, b) == Len(a) <= Len(b) /\ \A i \in 1 .. Len(a) : a[i] = b[i]

BatchIds(n) == 0 .. (CeilDiv(n, BatchSize) - 1)

FitCalled == pc = "fit" /\ stage /= "idle"

FitReturned == pc \in {"test", "done"}

\* C1: the cells run in the order data, model and trainer, (logging), fit,
\* test; no test_step runs before fit has finished its last epoch; test_step
\* runs in one pass that evaluates every test batch exactly once; the test
\* metrics are returned only after that pass has ended.
C1_StepsInOrder ==
    /\ IsPrefix(history, <<"data", "init", "logging", "fit", "test">>)
    /\ (calls.test_step > 0 \/ stage = "test") =>
           /\ current_epoch = MaxEpochs
           /\ passes.train = MaxEpochs
           /\ stage \notin {"sanity", "train", "val", "epoch_end"}
    /\ \A b \in DOMAIN counts.test : counts.test[b] <= 1
    /\ passes.test <= 1
    /\ returned /= <<>> =>
           /\ passes.test = 1
           /\ stage = "idle"
           /\ calls.test_step = CeilDiv(TestLen, BatchSize)
           /\ \A b \in BatchIds(TestLen) : counts.test[b] = 1

C1_Witness == pc = "done" /\ returned /= <<>> /\ calls.test_step > 1

RECURSIVE ArgMin(_, _)
\* The positions of the smallest value among the first k entries of h.
ArgMin(h, k) ==
    IF k = 1 THEN {1}
    ELSE LET rest == ArgMin(h, k - 1)
             m == CHOOSE i \in rest : TRUE
         IN  IF RatLess(h[k], h[m]) THEN {k}
             ELSE IF RatEq(h[k], h[m]) THEN rest \cup {k}
             ELSE rest

\* The parameters the model had when training epoch e (from 0) had ended.
ParamsAtEndOfEpoch(e) == (e + 1) * CeilDiv(TrainLen, BatchSize)

\* C3: the parameters trainer.test(ckpt_path='best') restores are those of
\* the end of the epoch with the lowest val_loss among the epochs of fit.
C3_BestEpochRestored ==
    (stage = "test" \/ returned /= <<>>) =>
        \E k \in ArgMin(val_hist, Len(val_hist)) :
            /\ ckpt[1].epoch = k - 1
            /\ params = ParamsAtEndOfEpoch(k - 1)

\* C4 as stated: every batch handed to a step function has BatchSize samples.
C4_EveryBatchFull ==
    batch /= <<>> => batch[1].size = BatchSize

\* C4, amended: every batch handed to training_step, validation_step or
\* test_step has at most BatchSize samples, every batch but the last of its
\* loader has exactly BatchSize and the last has what remains; each training
\* batch is consumed by exactly one optimization step.
C4_BatchSizes ==
    /\ batch /= <<>> =>
         LET n == DatasetLen(batch[1].loader)
             last == CeilDiv(n, BatchSize) - 1
         IN  /\ batch[1].idx \in 0 .. last
             /\ batch[1].size \in 1 .. BatchSize
             /\ batch[1].idx < last => batch[1].size = BatchSize
             /\ batch[1].idx = last => batch[1].size = n - last * BatchSize
    /\ calls.training_step = global_step
    /\ opt_state >= 0 => opt_state = calls.training_step
    /\ \A b \in DOMAIN counts.train : counts.train[b] <= 1

C4_Witness ==
    /\ batch /= <<>>
    /\ batch[1].loader = "train"
    /\ batch[1].size < BatchSize
    /\ global_step = CeilDiv(TrainLen, BatchSize)

C7_FitTerminates ==
    /\ [](FitReturned =>
            /\ current_epoch = MaxEpochs
            /\ passes.train = MaxEpochs
            /\ global_step = MaxEpochs * CeilDiv(TrainLen, BatchSize)
            /\ calls.training_step = global_step
            /\ ckpt /= <<>>
            /\ ckpt[1].epoch = MaxEpochs - 1
            /\ ckpt[1].step = global_step
            /\ max_epochs * ((train_len + batch_size - 1) \div batch_size) = ckpt_step)
    /\ [](current_epoch <= MaxEpochs)
    /\ (FitCalled ~> FitReturned)

C7_Witness ==
    /\ FitReturned
    /\ TrainLen % BatchSize /= 0
    /\ global_step = MaxEpochs * ((TrainLen \div BatchSize) + 1)

\* C8: validation_step and test_step leave the model parameters and the
\* optimizer state as they were; once the model and the optimizer exist,
\* the parameters and the optimizer state change only in a training step,
\* which is followed by exactly one optimizer step.
C8_OnlyTrainingUpdates ==
    [][ /\ (calls'.validation_step /= calls.validation_step
              \/ calls'.test_step /= calls.test_step) =>
                 /\ params' = params
                 /\ opt_state' = opt_state
                 /\ global_step' = global_step
        /\ (params >= 0 /\ params' /= params) =>
                 /\ calls'.training_step = calls.training_step + 1
                 /\ params' = params + 1
        /\ (opt_state >= 0 /\ opt_state' /= opt_state) =>
                 /\ calls'.training_step = calls.training_step + 1
                 /\ opt_state' = opt_state + 1
        /\ calls'.training_step /= calls.training_step =>
                 /\ params' /= params
                 /\ opt_state' /= opt_state
      ]_vars

C8_Witness ==
    /\ calls.validation_step > NumSanityValSteps
    /\ calls.test_step > 0
    /\ params = MaxEpochs * CeilDiv(TrainLen, BatchSize)

\* C9: inside fit, after the last training step of every epoch and before
\* the first training step of the next, exactly one validation pass runs and
\* calls validation_step once on every validation batch; fit performs
\* exactly MaxEpochs full validation passes after training has started (the
\* sanity check runs before the first training step).
C9_ValidationEveryEpoch ==
    /\ \A b \in DOMAIN counts.val : counts.val[b] <= 1
    /\ stage = "sanity" => calls.training_step = 0
    /\ calls.training_step > 0 => passes.sanity = 1
    /\ stage = "train" =>
           /\ passes.val = current_epoch
           /\ passes.train = current_epoch
    /\ stage = "val" =>
           /\ passes.val = current_epoch
           /\ \A b \in BatchIds(TrainLen) : counts.train[b] = 1
           /\ calls.training_step = (current_epoch + 1) * CeilDiv(TrainLen, BatchSize)
    /\ stage = "epoch_end" =>
           /\ passes.val = current_epoch + 1
           /\ \A b \in BatchIds(ValLen) : counts.val[b] = 1
    /\ FitReturned =>
           /\ passes.val = MaxEpochs
           /\ Len(val_hist) = MaxEpochs
           /\ \A b \in BatchIds(ValLen) : counts.val[b] = 1
           /\ calls.validation_step =
                  MaxEpochs * CeilDiv(ValLen, BatchSize)
                    + Min(NumSanityValSteps, CeilDiv(ValLen, BatchSize))

C9_Witness ==
    /\ FitReturned
    /\ passes.val = MaxEpochs
    /\ MaxEpochs > 1

\* C10: the accuracy reported for a pass is the number of correctly
\* classified samples of that pass divided by the number of its samples:
\* for val_acc of every validation pass and for the test_acc trainer.test
\* returns, also when the last batch is short, and without the counts of an
\* earlier pass or of the sanity check.
C10_AccuracyOfThePass ==
    /\ (callback_metrics /= <<>> /\ stage /= "val") =>
           /\ truth.val.samples = ValLen
           /\ RatEq(callback_metrics[1].val_acc, Rat(truth.val.correct, ValLen))
    /\ returned /= <<>> =>
           /\ truth.test.samples = TestLen
           /\ RatEq(returned[1].test_acc, Rat(truth.test.correct, TestLen))

C10_Witness ==
    /\ returned /= <<>>
    /\ TestLen % BatchSize /= 0
    /\ truth.test.correct \in 1 .. (TestLen - 1)
    /\ truth.val.correct \in 1 .. (ValLen - 1)
    /\ passes.val > 1

(***************************************************************************)
(* The data path (specification DataSpec): random_split of the training    *)
(* set and passes over the three DataLoaders, each served by NumWorkers    *)
(* worker processes.  A sample is <<dataset, index>>.                      *)
(***************************************************************************)
Range(q) == {q[i] : i \in 1 .. Len(q)}

RandPerms(n) == {q \in [1 .. n -> 1 .. n] : Range(q) = 1 .. n}

Slice(q, from, to) == [i \in 1 .. (to - from + 1) |-> q[from + i - 1]]

\* random_split(dataset, [a, b]): a random permutation of the indices, cut
\* at the accumulated lengths.
RandomSplitOverlapping(perm, a, b) ==
    [train |-> Slice(perm, 1, a), val |-> Slice(perm, a, a + b - 1)]

RandomSplit(perm, a, b) ==
    [train |-> Slice(perm, 1, a), val |-> Slice(perm, a + 1, a + b)]

\* The dataset a loader wraps, as the sequence of its samples.
LoaderDataset(loader) ==
    CASE loader = "train" ->
             [i \in 1 .. Len(subsets[1].train) |-> <<"mnist_train", subsets[1].train[i]>>]
      [] loader = "val" ->
             [i \in 1 .. Len(subsets[1].val) |-> <<"mnist_train", subsets[1].val[i]>>]
      [] loader = "test" ->
             [i \in 1 .. cfg.test |-> <<"mnist_test", i>>]

\* shuffle=True: RandomSampler, a fresh permutation for every pass;
\* shuffle=False: SequentialSampler.
SamplerOrdersWithReplacement(loader, n) ==
    IF loader = "train" THEN [1 .. n -> 1 .. n] ELSE {[i \in 1 .. n |-> i]}

SamplerOrders(loader, n) ==
    IF loader = "train" THEN RandPerms(n) ELSE {[i \in 1 .. n |-> i]}

\* BatchSampler(sampler, batch_size, drop_last=False).
BatchSampler(order, size) ==
    [b \in 1 .. ((Len(order) + size - 1) \div size) |->
        Slice(order, (b - 1) * size + 1, Min(b * size, Len(order)))]

\* _try_put_index: the next batch of indices goes to the next worker's queue.
TryPutIndex(it) ==
    IF it.send_idx >= Len(it.batches)
    THEN it
    ELSE [it EXCEPT
            !.index_queues[it.next_worker] =
                Append(@, <<it.send_idx, it.batches[it.send_idx + 1]>>),
            !.next_worker = (it.next_worker % NumWorkers) + 1,
            !.tasks_outstanding = @ + 1,
            !.send_idx = @ + 1]

RECURSIVE Prime(_, _)
Prime(it, k) == IF k = 0 THEN it ELSE Prime(TryPutIndex(it), k - 1)

DataSpecInit ==
    /\ RunInit
    /\ env = [dataset |-> TRUE, network |-> TRUE, gpu |-> TRUE]
    /\ DataIdle

\* training_data, validation_data = random_split(training_data, [55_000, 5_000])
SplitCell ==
    /\ subsets = <<>>
    /\ \E perm \in RandPerms(cfg.train + cfg.val) :
          subsets' = <<RandomSplit(perm, cfg.train, cfg.val)>>
    /\ UNCHANGED <<cfg, iter, delivered, runVars>>

\* A loop of the trainer asks a loader for an iterator: the sampler draws its
\* order, the workers are started and the first index batches are sent out.
IterStart ==
    /\ subsets /= <<>>
    /\ iter = <<>>
    /\ delivered.step = "none"
    /\ \E step \in {"training_step", "validation_step", "test_step"} :
         LET loader == StepLoader(step)
             n == Len(LoaderDataset(loader))
         IN  \E order \in SamplerOrders(loader, n) :
               /\ iter' = <<Prime([loader |-> loader,
                                    batches |-> BatchSampler(order, cfg.batch_size),
                                    index_queues |-> [w \in 1 .. NumWorkers |-> <<>>],
                                    data_queue |-> <<>>,
                                    task_info |-> {},
                                    next_worker |-> 1,
                                    tasks_outstanding |-> 0,
                                    send_idx |-> 0,
                                    rcvd_idx |-> 0],
                                   PrefetchFactor * NumWorkers)>>
               /\ delivered' = [NothingDelivered EXCEPT !.step = step]
    /\ UNCHANGED <<cfg, subsets, runVars>>

\* A worker takes the next index batch of its queue, reads the samples and
\* puts the batch on the shared data queue.
WorkerFetch ==
    /\ iter /= <<>>
    /\ \E w \in 1 .. NumWorkers :
         /\ iter[1].index_queues[w] /= <<>>
         /\ LET task == Head(iter[1].index_queues[w])
                data == [i \in 1 .. Len(task[2]) |->
                            LoaderDataset(iter[1].loader)[task[2][i]]]
            IN  iter' = <<[iter[1] EXCEPT
                             !.index_queues[w] = Tail(@),
                             !.data_queue = Append(@, <<task[1], data>>)]>>
    /\ UNCHANGED <<cfg, subsets, delivered, runVars>>

\* _process_data: the batch is handed to the step function and one more
\* index batch is sent out.
ProcessDataNoRefill(it, data) ==
    [it EXCEPT !.rcvd_idx = @ + 1]

ProcessData(it, data) ==
    TryPutIndex([it EXCEPT !.rcvd_idx = @ + 1])

\* _next_data, the batch that is due was received earlier and is taken from
\* the cache.
NextDataCached ==
    /\ iter /= <<>>
    /\ \E t \in iter[1].task_info :
         /\ t[1] = iter[1].rcvd_idx
         /\ iter' = <<ProcessData([iter[1] EXCEPT !.task_info = @ \ {t}], t[2])>>
         /\ delivered' = [delivered EXCEPT !.samples = @ \o t[2]]
    /\ UNCHANGED <<cfg, subsets, runVars>>

\* _next_data, otherwise: the next batch of the data queue is taken; it is
\* handed on when it is the one that is due and cached when it is not.
NextDataFromQueue ==
    /\ iter /= <<>>
    /\ \A t \in iter[1].task_info : t[1] /= iter[1].rcvd_idx
    /\ iter[1].data_queue /= <<>>
    /\ LET t == Head(iter[1].data_queue)
           it == [iter[1] EXCEPT !.data_queue = Tail(@),
                                 !.tasks_outstanding = @ - 1]
       IN  IF t[1] = it.rcvd_idx
           THEN /\ iter' = <<ProcessData(it, t[2])>>
                /\ delivered' = [delivered EXCEPT !.samples = @ \o t[2]]
           ELSE /\ iter' = <<[it EXCEPT !.task_info = @ \cup {t}]>>
                /\ delivered' = [delivered EXCEPT !.reordered = TRUE]
    /\ UNCHANGED <<cfg, subsets, runVars>>

\* _next_data, nothing is outstanding any more: StopIteration ends the pass.
IterEnd ==
    /\ iter /= <<>>
    /\ iter[1].rcvd_idx >= iter[1].send_idx
    /\ iter' = <<>>
    /\ delivered' = [delivered EXCEPT !.complete = TRUE]
    /\ UNCHANGED <<cfg, subsets, runVars>>

\* The loop that ran the pass ends and lets go of its batches.
LoopDone ==
    /\ iter = <<>>
    /\ delivered.complete
    /\ delivered' = NothingDelivered
    /\ UNCHANGED <<cfg, subsets, iter, runVars>>

DataNext ==
    \/ SplitCell
    \/ IterStart
    \/ WorkerFetch
    \/ NextDataCached
    \/ NextDataFromQueue
    \/ IterEnd
    \/ LoopDone

DataSpec == DataSpecInit /\ [][DataNext]_vars

\* The data cell has run, with a training partition of PassTrainLen samples
\* in batches of PassBatchSize; the split it drew is one of the rotations.
Rotation(n, k) == [i \in 1 .. n |-> ((i + k - 1) % n) + 1]

LoaderSpecInit ==
    /\ RunInit
    /\ env = [dataset |-> TRUE, network |-> TRUE, gpu |-> TRUE]
    /\ cfg = DataCfg(PassTrainLen, SplitValLen, SplitTestLen, PassBatchSize)
    /\ \E k \in 0 .. (cfg.train + cfg.val - 1) :
          subsets = <<RandomSplit(Rotation(cfg.train + cfg.val, k), cfg.train, cfg.val)>>
    /\ iter = <<>>
    /\ delivered = NothingDelivered

LoaderNext ==
    \/ IterStart
    \/ WorkerFetch
    \/ NextDataCached
    \/ NextDataFromQueue
    \/ IterEnd
    \/ LoopDone

LoaderSpec == LoaderSpecInit /\ [][LoaderNext]_vars

(***************************************************************************)
(* Properties of the data path (specification DataSpec).                   *)
(***************************************************************************)
NoRepeats(q) == \A i, j \in 1 .. Len(q) : q[i] = q[j] => i = j

TrainPartition == {<<"mnist_train", subsets[1].train[i]>> : i \in 1 .. cfg.train}

\* C2: in every pass over the training loader (every epoch), every sample of
\* the training partition reaches training_step in exactly one batch, none
\* skipped and none repeated, whatever the shuffle order and whatever the
\* order in which the workers finish their batches.
C2_EverySampleOncePerEpoch ==
    delivered.step = "training_step" =>
        /\ NoRepeats(delivered.samples)
        /\ Range(delivered.samples) \subseteq TrainPartition
        /\ delivered.complete =>
               /\ Len(delivered.samples) = cfg.train
               /\ Range(delivered.samples) = TrainPartition
               /\ Cardinality(TrainPartition) = cfg.train

\* A pass of more batches than the workers prefetch, shuffled, with a batch
\* that arrived before the one that was due.
C2_Witness ==
    /\ delivered.step = "training_step"
    /\ delivered.complete
    /\ delivered.reordered
    /\ delivered.samples /= LoaderDataset("train")
    /\ cfg.train > cfg.batch_size * PrefetchFactor * NumWorkers

\* C5: random_split leaves a training and a validation partition that are
\* disjoint, have SplitTrainLen and SplitValLen samples and together hold
\* every sample of the training set exactly once; training_step is fed from
\* the training partition and validation_step from the validation partition
\* only, never from the test set.
C5_PartitionsDisjoint ==
    /\ subsets /= <<>> =>
           /\ Len(subsets[1].train) = cfg.train
           /\ Len(subsets[1].val) = cfg.val
           /\ NoRepeats(subsets[1].train)
           /\ NoRepeats(subsets[1].val)
           /\ Range(subsets[1].train) \cap Range(subsets[1].val) = {}
           /\ Range(subsets[1].train) \cup Range(subsets[1].val) = 1 .. (cfg.train + cfg.val)
    /\ delivered.step = "training_step" =>
           \A i \in 1 .. Len(delivered.samples) :
               /\ delivered.samples[i][1] = "mnist_train"
               /\ delivered.samples[i][2] \in Range(subsets[1].train)
    /\ delivered.step = "validation_step" =>
           \A i \in 1 .. Len(delivered.samples) :
               /\ delivered.samples[i][1] = "mnist_train"
               /\ delivered.samples[i][2] \in Range(subsets[1].val)

C5_Witness ==
    /\ subsets /= <<>>
    /\ subsets[1].train /= [i \in 1 .. cfg.train |-> i]
    /\ delivered.step = "validation_step"
    /\ delivered.complete
    /\ Len(delivered.samples) = cfg.val

====
